---- MODULE Spec2Model ----
(***************************************************************************)
(* livedoppler (src/livedoppler3.py): live collection of Doppler returns   *)
(* from a serial byte source into a rolling waterfall buffer.              *)
(*                                                                         *)
(* One action per statement (or group of statements with no observable     *)
(* intermediate state) of livedoppler; KeyboardInterrupt is an             *)
(* asynchronous exception and may arrive at any statement.                 *)
(*                                                                         *)
(* Units. Times are in milliseconds, Fs in Hz, maxspeed in m/s, so that    *)
(* int(cpi*Fs) and int(loopduration/cpi) are exact integer divisions.      *)
(* A voltage is kept in units of 3.3/4096 V: data = raw12bit - 2048.       *)
(* A Hann coefficient is kept in quarters.  A spectrum magnitude is kept   *)
(* as its square (an integer in these units); its decibel value            *)
(* 20*log10(|X|) is kept symbolically, with -inf for |X| = 0.              *)
(***************************************************************************)
EXTENDS Integers, Sequences, FiniteSets

VARIABLES
    cfg,        \* the arguments of livedoppler: cpi, loopduration, maxspeed, Fs
    pc,         \* the statement livedoppler is about to execute
    ser,        \* the serial port: "unopened", "open", "closed"
    exc,        \* the exception propagating out of livedoppler, or "none"
    intAt,      \* the statement at which KeyboardInterrupt arrived, or "none"
    rawbin,     \* list of the bytes objects read for the current window
    cbyte,      \* the result of the last ser.read(): <<>> or <<b>>
    appended,   \* whether the current loop iteration appended a byte to rawbin
    raw12bit,   \* the composed integers of the last decoded window
    data,       \* the voltages of the last decoded window
    speedaxis,  \* the cropped speed axis
    doppler,    \* the waterfall buffer, row 1 is row 0 of the array
    rolled,     \* the buffer as it was before the last np.roll
    hist,       \* the rows written to row 0 so far, oldest first
    returned,   \* the value livedoppler returned, <<>> before it returns
    log,        \* the statements run for the frame being or last processed
    window,     \* the figure window: "none", "open", "closed"
    pending,    \* Ctrl-C was pressed and KeyboardInterrupt is not yet raised
    phase,      \* the next byte of the source's stream: 0 high byte, 1 low byte
    framePhase, \* phase when the first byte of rawbin was read, 0 if empty
    discarded,  \* bytes of the stream were discarded since the last byte read
    gap         \* rawbin holds two bytes that were not adjacent in the stream

\* the source's byte stream as seen by the port's input buffer
srcVars == <<phase, framePhase, discarded, gap>>

\* the display and the delivery of Ctrl-C
uiVars == <<window, pending>>

vars == <<cfg, pc, ser, exc, intAt, rawbin, cbyte, appended, raw12bit, data,
          speedaxis, doppler, rolled, hist, returned, log, srcVars, uiVars>>

----------------------------------------------------------------------------
(* Bounds and inputs *)

\* frames processed beyond the depth of the buffer before the source falls silent
ExtraFrames == 1

\* longest byte sequence handed to the decoder on its own
MaxDecLen == 4

\* most bytes waiting in the input buffer when it is reset
MaxDiscard == 2

\* byte values the serial source delivers
Bytes == {8, 16}

\* byte values handed to the decoder on its own
DecBytes == {0, 8, 15, 16, 255}

\* arguments of livedoppler, giving (windowsize, depth, retained bins):
\* (3, 2, 1), (2, 3, 1), (2, 2, 0) and (1, 1, 0)
Configs ==
    { [cpi |-> 500, loopduration |-> 1000, maxspeed |-> 30, Fs |-> 6],
      [cpi |-> 500, loopduration |-> 1500, maxspeed |-> 30, Fs |-> 5],
      [cpi |-> 500, loopduration |-> 1200, maxspeed |-> -1, Fs |-> 4],
      [cpi |-> 500, loopduration |-> 700,  maxspeed |-> 30, Fs |-> 2] }

\* byte values of the frames handed to the frame processing on its own
FrameBytes == {0, 8, 15}

\* arguments of livedoppler for the frame processing on its own: also
\* windowsize 4 with 2, 1 and 0 of its 2 one-sided bins retained
FrameConfigs ==
    Configs \cup
    { [cpi |-> 500, loopduration |-> 1000, maxspeed |-> 30, Fs |-> 8],
      [cpi |-> 500, loopduration |-> 1000, maxspeed |-> 0,  Fs |-> 8],
      [cpi |-> 500, loopduration |-> 1000, maxspeed |-> -1, Fs |-> 8] }

c == 299
fc == 2440

----------------------------------------------------------------------------
(* Preliminary calculations, lines 74-80 *)

windowsize == (cfg.cpi * cfg.Fs) \div 1000

\* np.hanning(M) in quarters, for M <= 4
han ==
    CASE windowsize = 1 -> <<4>>
      [] windowsize = 2 -> <<0, 0>>
      [] windowsize = 3 -> <<0, 4, 0>>
      [] windowsize = 4 -> <<0, 3, 3, 0>>

\* the speed of bin k+1 as a fraction <<numerator, denominator>>:
\* fftfreq(windowsize, 1/Fs)[k] * c / fc = (k * Fs / windowsize) * c / fc
FullSpeedAxis ==
    [k \in 1..(windowsize \div 2) |-> <<(k - 1) * cfg.Fs * c, windowsize * fc>>]

\* speedaxis <= maxspeed, element by element
SpeedMask ==
    [k \in 1..Len(FullSpeedAxis) |->
        FullSpeedAxis[k][1] <= cfg.maxspeed * FullSpeedAxis[k][2]]

\* a[mask]: the entries of a whose mask is true, in order
RECURSIVE BoolIndex(_, _)
BoolIndex(a, mask) ==
    IF a = <<>> THEN <<>>
    ELSE LET rest == BoolIndex(Tail(a), Tail(mask))
         IN  IF Head(mask) THEN <<Head(a)>> \o rest ELSE rest

\* a buffer entry is <<kind, m2>>: the initial 0.0, the decibel value of a
\* magnitude whose square is m2 > 0, or -inf (the logarithm of magnitude 0)
ZeroEntry == <<"zero", 0>>
NegInf == <<"-inf", 0>>

\* np.zeros((rows, cols))
Zeros(rows, cols) == [i \in 1..rows |-> [j \in 1..cols |-> ZeroEntry]]

\* doppler = np.zeros((int(loopduration/cpi), int(windowsize/2)))
\* doppler = doppler[:, speedaxis <= maxspeed]
InitialDoppler ==
    LET full == Zeros(cfg.loopduration \div cfg.cpi, windowsize \div 2)
    IN  [i \in 1..Len(full) |-> BoolIndex(full[i], SpeedMask)]

----------------------------------------------------------------------------
(* Decoding, lines 93-95 *)

\* [ord(idx) for idx in rawbin]
Ord(bin) == [i \in 1..Len(bin) |-> bin[i][1]]

\* s[start::2], start counted from 0
Stride(s, start) ==
    [i \in 1..((Len(s) - start + 1) \div 2) |-> s[start + 2 * i - 1]]

\* 256*np.asarray(hi) + np.asarray(lo) under numpy's broadcasting rules:
\* equal lengths combine element by element, a length of 1 is stretched to
\* the other length, anything else raises ValueError
Compose(hi, lo) ==
    IF Len(hi) = Len(lo) \/ Len(lo) = 1
    THEN [ok |-> TRUE,
          val |-> [i \in 1..Len(hi) |->
                      256 * hi[i] + lo[IF Len(lo) = 1 THEN 1 ELSE i]]]
    ELSE IF Len(hi) = 1
    THEN [ok |-> TRUE, val |-> [i \in 1..Len(lo) |-> 256 * hi[1] + lo[i]]]
    ELSE [ok |-> FALSE, val |-> <<>>]

\* mutant of Raw12: the second byte of each pair is taken as the high byte
Raw12_Swapped(raw8bit) == Compose(Stride(raw8bit, 1), Stride(raw8bit, 0))

\* raw12bit = 256*np.asarray(raw8bit[0::2]) + np.asarray(raw8bit[1::2])
Raw12(raw8bit) == Compose(Stride(raw8bit, 0), Stride(raw8bit, 1))

\* data = raw12bit*3.3/(2**12) - 3.3/2, in units of 3.3/4096 V
Volts(raw12) == [i \in 1..Len(raw12) |-> raw12[i] - 2048]

----------------------------------------------------------------------------
(* Transform, line 98 *)

RECURSIVE SumSeq(_)
SumSeq(s) == IF s = <<>> THEN 0 ELSE Head(s) + SumSeq(Tail(s))

\* exp(-2*pi*i*m/n) as <<re, im>>, for n dividing 4
Twiddle(n, m) ==
    LET q == (m * (4 \div n)) % 4
    IN  CASE q = 0 -> <<1, 0>>
          [] q = 1 -> <<0, -1>>
          [] q = 2 -> <<-1, 0>>
          [] q = 3 -> <<0, 1>>

\* |np.fft.fft(x)[k]|^2 for Len(x) <= 4
Mag2(x, k) ==
    LET n == Len(x)
    IN  IF n = 3
        THEN IF k = 0
             THEN (x[1] + x[2] + x[3]) * (x[1] + x[2] + x[3])
             ELSE x[1] * x[1] + x[2] * x[2] + x[3] * x[3]
                  - x[1] * x[2] - x[2] * x[3] - x[3] * x[1]
        ELSE LET re == SumSeq([i \in 1..n |-> x[i] * Twiddle(n, (i - 1) * k)[1]])
                 im == SumSeq([i \in 1..n |-> x[i] * Twiddle(n, (i - 1) * k)[2]])
             IN  re * re + im * im

\* 20*np.log10(m) of a magnitude given by its square
Decibel(m2) == IF m2 = 0 THEN NegInf ELSE <<"dB", m2>>

\* mutant of SpectrumRow: the whole one-sided spectrum, not cropped to the axis
SpectrumRow_Uncropped(d, axis) ==
    LET x == [i \in 1..Len(d) |-> han[i] * d[i]]
    IN  [j \in 1..(Len(x) \div 2) |-> Decibel(Mag2(x, j - 1))]

\* 20*np.log10(np.abs(np.fft.fft(han*data))[0:speedaxis.shape[0]])
SpectrumRow(d, axis) ==
    LET x == [i \in 1..Len(d) |-> han[i] * d[i]]
        k == IF Len(axis) < Len(x) THEN Len(axis) ELSE Len(x)
    IN  [j \in 1..k |-> Decibel(Mag2(x, j - 1))]

----------------------------------------------------------------------------
(* Waterfall update, lines 97-98 *)

\* mutants of Roll: no shift at all, and a shift in the other direction
Roll_NoShift(a) == a

Roll_Backward(a) == [i \in 1..Len(a) |-> a[(i % Len(a)) + 1]]

\* np.roll(a, 1, axis=0): row i of the result is row i-1 of a, row 0 is the last
Roll(a) == [i \in 1..Len(a) |-> a[((i - 2) % Len(a)) + 1]]

\* mutant of SetRow0: the row is inserted in front of the buffer, which grows
SetRow0_Insert(a, row) == <<row>> \o a

\* a[0,:] = row, for a row as wide as the buffer; a row of one entry is
\* broadcast over the columns
SetRow0(a, row) ==
    [a EXCEPT ![1] = IF Len(row) = Len(a[1]) THEN row
                     ELSE [j \in 1..Len(a[1]) |-> row[1]]]

\* whether a[0,:] = row raises: IndexError without a row 0, ValueError for a
\* row that cannot be broadcast to the buffer's width
SetRow0Error(a, row) ==
    IF Len(a) = 0 THEN "IndexError"
    ELSE IF Len(row) # Len(a[1]) /\ Len(row) # 1 THEN "ValueError"
    ELSE "none"

----------------------------------------------------------------------------
(* Control *)

\* the statements inside the try block, lines 86-103
TryPcs == {"read", "append", "check", "reset", "decode", "roll", "write",
           "imshow", "pause", "show", "clear"}

\* the statements outside it, lines 64-84 and 109-112
OutsidePcs == {"open", "sleep", "setup", "flush", "print", "close", "return"}

Init ==
    /\ cfg \in Configs
    /\ pc = "open"
    /\ ser = "unopened"
    /\ exc = "none"
    /\ intAt = "none"
    /\ rawbin = <<>>
    /\ cbyte = <<>>
    /\ appended = FALSE
    /\ raw12bit = <<>>
    /\ data = <<>>
    /\ speedaxis = <<>>
    /\ doppler = <<>>
    /\ rolled = <<>>
    /\ hist = <<>>
    /\ returned = <<>>
    /\ log = <<>>
    /\ window = "none"
    /\ pending = FALSE
    /\ phase = 0
    /\ framePhase = 0
    /\ discarded = FALSE
    /\ gap = FALSE

\* ser.reset_input_buffer(): the d bytes waiting in the input buffer are
\* dropped from the stream
Discard(d) ==
    /\ phase' = (phase + d) % 2
    /\ discarded' = (discarded \/ d > 0)
    /\ UNCHANGED <<framePhase, gap>>

\* line 64: ser = serial.Serial(serialport, ..., timeout=0)
Open ==
    /\ pc = "open"
    /\ ser' = "open"
    /\ pc' = "sleep"
    /\ UNCHANGED <<cfg, exc, intAt, rawbin, cbyte, appended, raw12bit, data,
                   speedaxis, doppler, rolled, hist, returned>>
    /\ UNCHANGED <<log, srcVars, uiVars>>

\* line 65: time.sleep(.1)
Sleep ==
    /\ pc = "sleep"
    /\ pc' = "setup"
    /\ UNCHANGED <<cfg, ser, exc, intAt, rawbin, cbyte, appended, raw12bit,
                   data, speedaxis, doppler, rolled, hist, returned>>
    /\ UNCHANGED <<log, srcVars, uiVars>>

\* lines 69-83: the plot, the preliminary calculations, rawbin = list()
Setup ==
    /\ pc = "setup"
    /\ speedaxis' = BoolIndex(FullSpeedAxis, SpeedMask)
    /\ doppler' = InitialDoppler
    /\ rawbin' = <<>>
    /\ pc' = "flush"
    /\ UNCHANGED <<cfg, ser, exc, intAt, cbyte, appended, raw12bit, data,
                   rolled, hist, returned>>
    /\ UNCHANGED <<log, srcVars, uiVars>>

\* line 84: ser.reset_input_buffer()
Flush ==
    /\ pc = "flush"
    /\ pc' = "read"
    /\ UNCHANGED <<cfg, ser, exc, intAt, rawbin, cbyte, appended, raw12bit,
                   data, speedaxis, doppler, rolled, hist, returned>>
    /\ \E d \in 0..MaxDiscard : Discard(d)
    /\ UNCHANGED <<log, uiVars>>

\* line 87: cbyte = ser.read(), at most one byte, empty when none is waiting
Read ==
    /\ pc = "read"
    /\ Len(hist) < Len(doppler) + ExtraFrames
    /\ \E b \in {<<>>} \cup {<<v>> : v \in Bytes} :
          /\ cbyte' = b
          /\ IF b # <<>>
             THEN /\ phase' = 1 - phase
                  /\ framePhase' = IF rawbin = <<>> THEN phase ELSE framePhase
                  /\ gap' = (gap \/ (rawbin # <<>> /\ discarded))
                  /\ discarded' = FALSE
             ELSE UNCHANGED srcVars
    /\ appended' = FALSE
    /\ pc' = "append"
    /\ UNCHANGED <<cfg, ser, exc, intAt, rawbin, raw12bit, data, speedaxis,
                   doppler, rolled, hist, returned>>
    /\ UNCHANGED <<log, uiVars>>

\* mutants of AppendByte: the empty result of a poll is appended too, and
\* a byte is appended twice
AppendByte_Always ==
    /\ pc = "append"
    /\ rawbin' = Append(rawbin, cbyte)
    /\ appended' = TRUE
    /\ pc' = "check"
    /\ log' = <<>>
    /\ UNCHANGED <<cfg, ser, exc, intAt, cbyte, raw12bit, data, speedaxis,
                   doppler, rolled, hist, returned, srcVars, uiVars>>

AppendByte_Twice ==
    /\ pc = "append"
    /\ IF cbyte # <<>>
       THEN rawbin' = rawbin \o <<cbyte, cbyte>> /\ appended' = TRUE
       ELSE UNCHANGED <<rawbin, appended>>
    /\ pc' = "check"
    /\ log' = IF cbyte # <<>> THEN <<>> ELSE log
    /\ UNCHANGED <<cfg, ser, exc, intAt, cbyte, raw12bit, data, speedaxis,
                   doppler, rolled, hist, returned, srcVars, uiVars>>

\* lines 88-89: if cbyte: rawbin.append(cbyte)
AppendByte ==
    /\ pc = "append"
    /\ IF cbyte # <<>>
       THEN rawbin' = Append(rawbin, cbyte) /\ appended' = TRUE
       ELSE UNCHANGED <<rawbin, appended>>
    /\ pc' = "check"
    /\ UNCHANGED <<cfg, ser, exc, intAt, cbyte, raw12bit, data, speedaxis,
                   doppler, rolled, hist, returned>>
    /\ log' = IF cbyte # <<>> THEN <<>> ELSE log
    /\ UNCHANGED <<srcVars, uiVars>>

\* mutants of Ready: the comparison is strict, and the count is one short
Ready_Strict == Len(rawbin) > 2 * windowsize

Ready_Early == Len(rawbin) >= 2 * windowsize - 1

\* line 90: if len(rawbin) >= 2*windowsize
Ready == Len(rawbin) >= 2 * windowsize

Check ==
    /\ pc = "check"
    /\ pc' = IF Ready THEN "reset" ELSE "read"
    /\ UNCHANGED <<cfg, ser, exc, intAt, rawbin, cbyte, appended, raw12bit,
                   data, speedaxis, doppler, rolled, hist, returned>>
    /\ UNCHANGED <<log, srcVars, uiVars>>

\* line 91: ser.reset_input_buffer()
ResetInput ==
    /\ pc = "reset"
    /\ pc' = "decode"
    /\ UNCHANGED <<cfg, ser, exc, intAt, rawbin, cbyte, appended, raw12bit,
                   data, speedaxis, doppler, rolled, hist, returned>>
    /\ \E d \in 0..MaxDiscard : Discard(d)
    /\ log' = <<"discard">>
    /\ UNCHANGED uiVars

\* lines 93-95
Decode ==
    /\ pc = "decode"
    /\ LET r == Raw12(Ord(rawbin))
       IN  IF r.ok
           THEN /\ raw12bit' = r.val
                /\ data' = Volts(r.val)
                /\ pc' = "roll"
                /\ exc' = exc
                /\ log' = Append(log, "decode")
           ELSE /\ pc' = "raised"
                /\ exc' = "ValueError"
                /\ UNCHANGED <<raw12bit, data, log>>
    /\ UNCHANGED <<cfg, ser, intAt, rawbin, cbyte, appended, speedaxis,
                   doppler, rolled, hist, returned>>
    /\ UNCHANGED <<srcVars, uiVars>>

\* line 97: doppler = np.roll(doppler,1,axis=0)
RollStep ==
    /\ pc = "roll"
    /\ rolled' = doppler
    /\ doppler' = Roll(doppler)
    /\ pc' = "write"
    /\ UNCHANGED <<cfg, ser, exc, intAt, rawbin, cbyte, appended, raw12bit,
                   data, speedaxis, hist, returned>>
    /\ log' = Append(log, "roll")
    /\ UNCHANGED <<srcVars, uiVars>>

\* line 98: doppler[0,:] = 20*np.log10(...)
Write ==
    /\ pc = "write"
    /\ LET row == SpectrumRow(data, speedaxis)
           err == SetRow0Error(doppler, row)
       IN  IF err = "none"
           THEN /\ doppler' = SetRow0(doppler, row)
                /\ hist' = Append(hist, row)
                /\ pc' = "imshow"
                /\ exc' = exc
                /\ log' = Append(log, "write")
           ELSE /\ pc' = "raised"
                /\ exc' = err
                /\ UNCHANGED <<doppler, hist, log>>
    /\ UNCHANGED <<cfg, ser, intAt, rawbin, cbyte, appended, raw12bit, data,
                   speedaxis, rolled, returned>>
    /\ UNCHANGED <<srcVars, uiVars>>

\* mutant of Render: plt.pause is left out
Render_NoPause ==
    /\ pc \in {"imshow", "pause", "show"}
    /\ pc = "show" => window # "open"
    /\ ~pending
    /\ pc' = CASE pc = "imshow" -> "show"
               [] pc = "pause" -> "show"
               [] pc = "show" -> "clear"
    /\ UNCHANGED <<cfg, ser, exc, intAt, rawbin, cbyte, appended, raw12bit,
                   data, speedaxis, doppler, rolled, hist, returned>>
    /\ window' = window
    /\ log' = Append(log, pc)
    /\ UNCHANGED <<srcVars, pending>>

\* lines 100-102: ax.imshow(...), plt.pause(0.05), plt.show(), with
\* matplotlib in its default non-interactive mode: plt.pause displays the
\* figure if it was not displayed yet, and plt.show() returns only when no
\* figure window is open
Render ==
    /\ pc \in {"imshow", "pause", "show"}
    /\ pc = "show" => window # "open"
    /\ ~pending
    /\ window' = IF pc = "pause" /\ window = "none" THEN "open" ELSE window
    /\ log' = Append(log, pc)
    /\ UNCHANGED <<srcVars, pending>>
    /\ pc' = CASE pc = "imshow" -> "pause"
               [] pc = "pause" -> "show"
               [] pc = "show" -> "clear"
    /\ UNCHANGED <<cfg, ser, exc, intAt, rawbin, cbyte, appended, raw12bit,
                   data, speedaxis, doppler, rolled, hist, returned>>

\* lines 100-102 when the display raises: no handler in livedoppler catches it
RenderFail ==
    /\ pc \in {"imshow", "pause", "show"}
    /\ exc' = "RenderError"
    /\ pc' = "raised"
    /\ UNCHANGED <<cfg, ser, intAt, rawbin, cbyte, appended, raw12bit, data,
                   speedaxis, doppler, rolled, hist, returned>>
    /\ UNCHANGED <<log, srcVars, uiVars>>

\* mutant of Clear: rawbin is not emptied
Clear_NoReset ==
    /\ pc = "clear"
    /\ raw12bit' = <<>>
    /\ data' = <<>>
    /\ pc' = "read"
    /\ UNCHANGED <<cfg, ser, exc, intAt, rawbin, cbyte, appended, speedaxis,
                   doppler, rolled, hist, returned>>
    /\ log' = Append(log, "clear")
    /\ gap' = FALSE
    /\ framePhase' = 0
    /\ UNCHANGED <<phase, discarded, uiVars>>

\* line 103: rawbin = list().  raw12bit and data are not read again before
\* lines 94-95 assign them anew, so their values are dropped here with rawbin
Clear ==
    /\ pc = "clear"
    /\ rawbin' = <<>>
    /\ raw12bit' = <<>>
    /\ data' = <<>>
    /\ pc' = "read"
    /\ UNCHANGED <<cfg, ser, exc, intAt, cbyte, appended, speedaxis, doppler,
                   rolled, hist, returned>>
    /\ log' = Append(log, "clear")
    /\ gap' = FALSE
    /\ framePhase' = 0
    /\ UNCHANGED <<phase, discarded, uiVars>>

\* Ctrl-C: KeyboardInterrupt is raised at the statement about to execute.
\* Lines 85, 106-107: inside the try it is caught and control goes to line 109;
\* anywhere else it propagates to the caller.  A Ctrl-C left pending by the
\* window's event loop is raised once plt.show() gets control back
Interrupt ==
    /\ pc \in TryPcs \cup OutsidePcs
    /\ pending => window # "open"
    /\ pending' = FALSE
    /\ UNCHANGED <<log, srcVars, window>>
    /\ intAt' = pc
    /\ IF pc \in TryPcs
       THEN pc' = "print" /\ exc' = exc
       ELSE pc' = "raised" /\ exc' = "KeyboardInterrupt"
    /\ UNCHANGED <<cfg, ser, rawbin, cbyte, appended, raw12bit, data,
                   speedaxis, doppler, rolled, hist, returned>>

\* lines 56-60, 102: Ctrl-C is pressed while plt.show() is running the open
\* window's event loop, which does not hand it to the interpreter
PressCtrlC ==
    /\ pc = "show"
    /\ window = "open"
    /\ ~pending
    /\ pending' = TRUE
    /\ UNCHANGED <<cfg, pc, ser, exc, intAt, rawbin, cbyte, appended, raw12bit,
                   data, speedaxis, doppler, rolled, hist, returned, log,
                   srcVars, window>>

\* lines 56-60: the user closes the display window
CloseWindow ==
    /\ pc \in TryPcs
    /\ window = "open"
    /\ window' = "closed"
    /\ UNCHANGED <<cfg, pc, ser, exc, intAt, rawbin, cbyte, appended, raw12bit,
                   data, speedaxis, doppler, rolled, hist, returned, log,
                   srcVars, pending>>

\* line 109: print('Collection complete.')
Announce ==
    /\ pc = "print"
    /\ pc' = "close"
    /\ UNCHANGED <<cfg, ser, exc, intAt, rawbin, cbyte, appended, raw12bit,
                   data, speedaxis, doppler, rolled, hist, returned>>
    /\ UNCHANGED <<log, srcVars, uiVars>>

\* line 110: ser.close()
Close ==
    /\ pc = "close"
    /\ ser' = "closed"
    /\ pc' = "return"
    /\ UNCHANGED <<cfg, exc, intAt, rawbin, cbyte, appended, raw12bit, data,
                   speedaxis, doppler, rolled, hist, returned>>
    /\ UNCHANGED <<log, srcVars, uiVars>>

\* line 112: return doppler
Return ==
    /\ pc = "return"
    /\ returned' = doppler
    /\ pc' = "done"
    /\ UNCHANGED <<cfg, ser, exc, intAt, rawbin, cbyte, appended, raw12bit,
                   data, speedaxis, doppler, rolled, hist>>
    /\ UNCHANGED <<log, srcVars, uiVars>>

Next ==
    \/ Open
    \/ Sleep
    \/ Setup
    \/ Flush
    \/ Read
    \/ AppendByte
    \/ Check
    \/ ResetInput
    \/ Decode
    \/ RollStep
    \/ Write
    \/ Render
    \/ RenderFail
    \/ Clear
    \/ Interrupt
    \/ PressCtrlC
    \/ CloseWindow
    \/ Announce
    \/ Close
    \/ Return

Spec == Init /\ [][Next]_vars

----------------------------------------------------------------------------
(* The decoder on its own: lines 93-95 applied to any byte sequence *)

\* every list of at most n bytes objects
ByteLists(n) ==
    UNION {[1..m -> {<<v>> : v \in DecBytes}] : m \in 0..n}

InitDecode ==
    /\ cfg \in Configs
    /\ pc = "decode"
    /\ ser = "open"
    /\ exc = "none"
    /\ intAt = "none"
    /\ rawbin \in ByteLists(MaxDecLen)
    /\ cbyte = <<>>
    /\ appended = FALSE
    /\ raw12bit = <<>>
    /\ data = <<>>
    /\ speedaxis = BoolIndex(FullSpeedAxis, SpeedMask)
    /\ doppler = InitialDoppler
    /\ rolled = <<>>
    /\ hist = <<>>
    /\ returned = <<>>
    /\ log = <<>>
    /\ window = "none"
    /\ pending = FALSE
    /\ phase = 0
    /\ framePhase = 0
    /\ discarded = FALSE
    /\ gap = FALSE

SpecDecode == InitDecode /\ [][Decode]_vars

----------------------------------------------------------------------------
(* The processing of one frame on its own: lines 93-98 applied to any full
   window of bytes, for any of the arguments in FrameConfigs *)

InitFrame ==
    /\ cfg \in FrameConfigs
    /\ pc = "decode"
    /\ ser = "open"
    /\ exc = "none"
    /\ intAt = "none"
    /\ rawbin \in [1..(2 * windowsize) -> {<<v>> : v \in FrameBytes}]
    /\ cbyte = rawbin[Len(rawbin)]
    /\ appended = TRUE
    /\ raw12bit = <<>>
    /\ data = <<>>
    /\ speedaxis = BoolIndex(FullSpeedAxis, SpeedMask)
    /\ doppler = InitialDoppler
    /\ rolled = <<>>
    /\ hist = <<>>
    /\ returned = <<>>
    /\ log = <<"discard">>
    /\ window = "none"
    /\ pending = FALSE
    /\ phase = 0
    /\ framePhase = 0
    /\ discarded = FALSE
    /\ gap = FALSE

NextFrame ==
    \/ Decode
    \/ RollStep
    \/ Write

SpecFrame == InitFrame /\ [][NextFrame]_vars

----------------------------------------------------------------------------
(* Quantities the properties refer to *)

\* depth = floor(loopduration/cpi)
Depth == cfg.loopduration \div cfg.cpi

\* K = the number of speed-axis entries <= maxspeed
RetainedBins ==
    Cardinality({k \in 1..(windowsize \div 2) :
                    (k - 1) * cfg.Fs * c <= cfg.maxspeed * windowsize * fc})

\* lines 69-80 have run: the buffer exists
Initialized ==
    /\ pc \notin {"open", "sleep", "setup"}
    /\ ~(pc = "raised" /\ intAt \in {"open", "sleep", "setup"})

\* the statements of one frame's processing, lines 91-103
FramePcs == {"reset", "decode", "roll", "write", "imshow", "pause", "show",
             "clear"}

ZeroRow == [j \in 1..RetainedBins |-> ZeroEntry]

\* the statements of one frame's processing in the order of lines 91-103
FrameStmts == <<"reset", "decode", "roll", "write", "imshow", "pause", "show",
                "clear">>

\* what log holds once each of them has run
FrameOrder == <<"discard", "decode", "roll", "write", "imshow", "pause",
                "show", "clear">>

StmtIndex(p) == CHOOSE i \in 1..Len(FrameStmts) : FrameStmts[i] = p

\* the rows h (oldest first) laid out newest first over zero rows
NewestFirst(h) ==
    [i \in 1..Depth |-> IF i <= Len(h) THEN h[Len(h) - i + 1] ELSE ZeroRow]

----------------------------------------------------------------------------
(* Properties *)

\* C1: cancellation never yields a partial result: whenever livedoppler
\* returns, row 0 of the returned buffer is the last fully processed spectrum
\* row (the initial zero row when no frame was processed), never the row that
\* a shift without the following write left there.
C1_NoPartialResult ==
    pc = "done" =>
        returned[1] = (IF hist = <<>> THEN ZeroRow ELSE hist[Len(hist)])

\* C2: one update with row r maps the buffer B to B' with B'[0] = r and
\* B'[i] = B[i-1] for i in 1..depth-1; only the row at depth-1 is discarded.
C2_UpdateShifts ==
    pc = "imshow" =>
        /\ Len(doppler) = Len(rolled)
        /\ doppler[1] = hist[Len(hist)]
        /\ \A i \in 2..Len(rolled) : doppler[i] = rolled[i - 1]

C2_Witness ==
    /\ pc = "imshow"
    /\ Len(rolled) = 2
    /\ rolled[1] # rolled[2]
    /\ doppler[1] # rolled[1]
    /\ doppler[1] # rolled[2]

\* C3: from the zero-filled buffer, after n updates with rows r1..rn the
\* buffer holds the last min(n, depth) rows newest first, followed by zero
\* rows; the (depth+1)-th update evicts r1 and no other row.
C3_NewestFirst ==
    (pc \in TryPcs \ {"write"}) => doppler = NewestFirst(hist)

C3_Witness ==
    /\ pc = "imshow"
    /\ Depth = 2
    /\ Len(hist) = Depth + 1
    /\ hist[1] # hist[2]
    /\ hist[2] # hist[3]
    /\ hist[1] # hist[3]
    /\ doppler = <<hist[3], hist[2]>>

\* C4: in every state after initialization the buffer has exactly
\* depth = floor(loopduration/cpi) rows and exactly K columns; no update,
\* render, empty poll or cancellation changes either dimension.
C4_Dimensions ==
    /\ Initialized =>
          /\ Len(doppler) = Depth
          /\ \A i \in 1..Len(doppler) : Len(doppler[i]) = RetainedBins
    /\ pc = "done" =>
          /\ Len(returned) = Depth
          /\ \A i \in 1..Len(returned) : Len(returned[i]) = RetainedBins

C4_Witness ==
    /\ pc = "done"
    /\ cfg.maxspeed < 0
    /\ windowsize \div 2 > RetainedBins
    /\ Len(hist) >= Depth
    /\ cbyte = <<>>

\* C5: frame processing starts exactly when the accumulated byte count
\* reaches 2*windowsize: never with fewer bytes, never on an iteration that
\* did not just append the byte completing the count, and always on the
\* iteration that did (no poll follows a complete count).
C5_ReadyExactly ==
    /\ pc \in FramePcs => Len(rawbin) = 2 * windowsize /\ appended
    /\ pc \in {"read", "append"} => Len(rawbin) < 2 * windowsize
    /\ pc = "check" /\ ~appended => Len(rawbin) < 2 * windowsize

C5_Witness ==
    /\ pc = "reset"
    /\ windowsize = 3
    /\ Len(hist) = 1

\* C6: the controller leaves Running only because of the external
\* cancellation signal: whenever control is no longer inside the loop, an
\* interrupt has arrived; no byte sequence makes the loop exit or abort.
C6_OnlyCancellationLeavesLoop ==
    (Initialized /\ pc \notin TryPcs \cup {"flush"}) => intAt # "none"

\* C7: whenever the pipeline, having opened its byte source, stops because
\* of cancellation, at whatever statement the interrupt arrived, the source
\* is closed and the final buffer has been returned to the caller.
C7_CancellationReleasesAndReturns ==
    (intAt # "none" /\ pc \in {"done", "raised"} /\ ser # "unopened") =>
        /\ ser = "closed"
        /\ pc = "done"
        /\ returned = doppler

\* C8: a failing render call is recoverable: after the display fails on a
\* frame the controller stays Running (control remains inside the loop) and
\* later frames are still processed.
C8_RenderFailureRecoverable ==
    exc = "RenderError" => pc \in TryPcs

\* C9: every sample decoded from a frame the pipeline receives has a composed
\* value 256*high + low in [0, 4095], equivalently a voltage in
\* [-1.65, 1.65) V, that is [-2048, 2048) in units of 3.3/4096 V.
C9_TwelveBitRange ==
    /\ \A i \in 1..Len(raw12bit) : raw12bit[i] \in 0..4095
    /\ \A i \in 1..Len(data) : data[i] \in -2048..2047

\* C10: decoding a frame of even length L yields exactly L/2 samples, and
\* sample i is 256*b[2i] + b[2i+1] for every i in [0, L/2): the first byte
\* of each pair is the high byte.
C10_DecodePairs ==
    (pc = "roll" /\ Len(rawbin) % 2 = 0) =>
        /\ Len(raw12bit) = Len(rawbin) \div 2
        /\ \A i \in 0..(Len(rawbin) \div 2 - 1) :
              raw12bit[i + 1] = 256 * rawbin[2 * i + 1][1] + rawbin[2 * i + 2][1]

C10_Witness ==
    /\ pc = "roll"
    /\ rawbin = <<<<15>>, <<255>>, <<8>>, <<0>>>>
    /\ raw12bit = <<4095, 2048>>

\* C11: for every valid windowsize and every maxspeed the spectrum row of a
\* frame has exactly K entries, K the number of speed-axis entries
\* <= maxspeed, which is the width of the buffer: writing the row to row 0
\* never meets a width mismatch.
C11_RowWidth ==
    /\ exc = "none"
    /\ pc = "write" =>
          /\ Len(SpectrumRow(data, speedaxis)) = RetainedBins
          /\ Len(doppler[1]) = RetainedBins
          /\ Len(speedaxis) = RetainedBins
    /\ pc = "imshow" =>
          /\ Len(hist[Len(hist)]) = RetainedBins
          /\ doppler[1] = hist[Len(hist)]

C11_Witness ==
    /\ pc = "imshow"
    /\ windowsize = 4
    /\ RetainedBins = 1
    /\ doppler[1][1][1] = "dB"

\* C12: no row stored in the buffer ever contains -infinity: a retained bin
\* of magnitude 0 (for instance from an all-zero sample window) is stored as
\* a defined floor value instead.
C12_NoNegInf ==
    \A i \in 1..Len(doppler) : \A j \in 1..Len(doppler[i]) :
        doppler[i][j] # NegInf

C14_EmptyPollNoEffect ==
    [][((pc = "read" /\ pc' = "append" /\ cbyte' = <<>>)
        \/ (pc = "append" /\ cbyte = <<>>)
        \/ (pc = "check" /\ ~appended)) =>
           /\ rawbin' = rawbin
           /\ doppler' = doppler
           /\ hist' = hist
           /\ log' = log
           /\ exc' = exc
           /\ <<phase, discarded>>' = <<phase, discarded>>
           /\ pc' \in {"append", "check", "read", "print"}
           /\ pc' = "print" => intAt' = pc]_vars

C14_Witness ==
    /\ pc = "check"
    /\ ~appended
    /\ cbyte = <<>>
    /\ rawbin # <<>>
    /\ hist # <<>>

\* C15: the loop remains responsive to cancellation: once Ctrl-C has been
\* pressed, KeyboardInterrupt can be raised, and livedoppler go on to stop and
\* return, without any further action such as closing the display.
C15_Responsive ==
    pending => ENABLED Interrupt

\* C16: every frame handed to the decoder has exactly 2*windowsize bytes, an
\* even number: no odd-length frame reaches the decoder, and the decoded
\* samples are windowsize many, as many as the Hann coefficients.
C16_FrameLength ==
    /\ exc # "ValueError"
    /\ pc = "decode" =>
          /\ Len(rawbin) = 2 * windowsize
          /\ Len(rawbin) % 2 = 0
    /\ pc \in {"roll", "write"} =>
          /\ Len(data) = windowsize
          /\ Len(data) = Len(han)

C16_Witness ==
    /\ pc = "roll"
    /\ windowsize = 3
    /\ Len(data) = 3
    /\ Len(hist) = 1

\* C17: for windowsize >= 1 the accumulator never holds more than
\* 2*windowsize bytes: a loop iteration appends at most one byte, and the
\* accumulator is emptied in the iteration in which it reaches 2*windowsize,
\* before the next poll.
C17_AccumulatorBounded ==
    /\ [](/\ windowsize >= 1
          /\ Len(rawbin) <= 2 * windowsize
          /\ pc = "read" => Len(rawbin) < 2 * windowsize)
    /\ [][Len(rawbin') <= Len(rawbin) + 1]_vars

C17_Witness ==
    /\ pc = "clear"
    /\ Len(rawbin) = 2 * windowsize
    /\ windowsize = 3
    /\ Len(hist) = 2

\* C18: the source's input is discarded only before the first poll and when
\* a frame has just been completed, never while a partial frame is held;
\* hence the bytes of every frame are consecutive in the source's stream.
C18_DiscardBetweenFrames ==
    /\ ~gap
    /\ pc = "flush" => rawbin = <<>> /\ cbyte = <<>> /\ hist = <<>>
    /\ pc = "reset" => Len(rawbin) = 2 * windowsize
    /\ (discarded /\ pc \in TryPcs) =>
          rawbin = <<>> \/ Len(rawbin) = 2 * windowsize

C18_Witness ==
    /\ pc = "decode"
    /\ windowsize = 3
    /\ Len(hist) = 1
    /\ discarded
    /\ ~gap

\* C19: byte pairing stays aligned with the source's samples: the first byte
\* of every frame the decoder receives is the high byte of a sample, after
\* the discard at startup and after every discard that follows a frame.
C19_Aligned ==
    pc = "decode" => framePhase = 0

====
